---- MODULE Spec2Model ----
(***************************************************************************)
(* Options-chain dashboard (streamlit_app.py): the cached provider         *)
(* gateway, the expiration filter, the chain normalizer, the derived-field *)
(* calculator with its views, and the Streamlit script with its session    *)
(* state.                                                                  *)
(*                                                                         *)
(* A pandas DataFrame is a record [columns, rows]: the set of column names *)
(* and the sequence of rows, each row a function from the column names and *)
(* "index" (the row label pandas keeps through filters and sorts) to the   *)
(* cell values.  An expiration "YYYY-MM-DD" is the number YYYYMMDD, whose   *)
(* order is the order of the strings.                                      *)
(***************************************************************************)
EXTENDS Integers, Sequences, FiniteSets, TLC

\* Most rows (calls plus puts) of one provider answer in SpecChain, and most
\* rows of a table in SpecSorted.
MaxRows == 3

\* The call counters stop counting here.
CallCap == 3

Tickers == {"AAPL", "MSFT"}
Strikes == {90, 100}
OpenInterests == {0, 30, 50}
Expirations == {20250101, 20250201}

VARIABLES
    resp,         \* SpecChain: the provider's answer to ticker.option_chain(expiration)
    expiration,   \* SpecChain: the expiration asked for
    df,           \* the table object the plot functions are handed (NoFrame before a fetch)
    fig,          \* the rows the last plot function handed to sns.barplot (NoFigure before)
    op,           \* the last operation applied: "init", "fetch", "change", "volume", "sorted"
    text_input,       \* the text typed into the ticker box
    expiry_selectbox, \* the expiration selectbox the last run rendered: its options and value
    plot_selector,    \* the plot selectbox the last run rendered: its value
    session_state,    \* st.session_state: options_data, data_fetched, selected_expiry
    cache,            \* the st.cache_data stores of the three cached functions
    shown,            \* what the last run of the script displayed
    provider_calls,   \* history: how often each provider call and the filter body ran, per key
    first_return,     \* history: the first result each cached function returned, per key
    last_returns,     \* history: the results the cached functions returned in the last run
    last_filter,      \* history: the last execution of the body of get_valid_expirations
    failed            \* history: the provider calls that raised, as <<function, key>>

table_vars == <<resp, expiration, df, fig, op>>

session_vars == <<text_input, expiry_selectbox, plot_selector, session_state, cache, shown,
                  provider_calls, first_return, last_returns, last_filter, failed>>

vars == <<table_vars, session_vars>>

----------------------------------------------------------------------------
(* pandas *)

NoFrame == [none |-> TRUE]
NoFigure == [none |-> TRUE]

\* pd.DataFrame(): no columns, no rows.
EmptyDataFrame == [columns |-> {}, rows |-> <<>>]

\* DataFrame.empty: any axis of length 0.
IsEmpty(d) == d.columns = {} \/ Len(d.rows) = 0

\* row[c] = v, adding the cell when the column is new.
SetCell(row, c, v) == [k \in (DOMAIN row) \cup {c} |-> IF k = c THEN v ELSE row[k]]

\* d[c] = vals, vals one value per row in row order; the object d is updated.
SetColumn(d, c, vals) ==
    [columns |-> d.columns \cup {c},
     rows |-> [i \in 1..Len(d.rows) |-> SetCell(d.rows[i], c, vals[i])]]

\* A scalar assigned to a column is broadcast to every row.
Broadcast(d, v) == [i \in 1..Len(d.rows) |-> v]

\* pd.concat([a, b], ignore_index=True) of two frames with the same columns:
\* the rows of a, then the rows of b, relabelled 0..n-1.
Concat(a, b) ==
    LET la == Len(a.rows)
        n == la + Len(b.rows)
    IN [columns |-> a.columns \cup b.columns,
        rows |-> [i \in 1..n |->
                    SetCell(IF i <= la THEN a.rows[i] ELSE b.rows[i - la], "index", i - 1)]]

\* The frame the provider returns for one side: a RangeIndex and its columns.
ProviderFrame(rs) ==
    [columns |-> {"strike", "openInterest", "volume"},
     rows |-> [i \in 1..Len(rs) |->
                 [index |-> i - 1, strike |-> rs[i].strike,
                  openInterest |-> rs[i].openInterest, volume |-> rs[i].volume]]]

\* Series.sum() of a column (0 for no rows).
RECURSIVE SumColumn(_, _, _)
SumColumn(d, c, n) == IF n = 0 THEN 0 ELSE d.rows[n][c] + SumColumn(d, c, n - 1)

\* Series.shift(1, fill_value): every value moves one place down.
Shift(vals, fill) ==
    IF vals = <<>> THEN <<>> ELSE <<fill>> \o SubSeq(vals, 1, Len(vals) - 1)

\* The positions of the rows of d whose column `by` is k, in row order: one
\* group of d.groupby(by).
GroupPositions(d, by, k) ==
    LET InGroup(i) == d.rows[i][by] = k
    IN SelectSeq([i \in 1..Len(d.rows) |-> i], InGroup)

\* Mutant of GroupbyShift: d[c].shift(1, fill_value=fill), the groups forgotten.
ShiftWholeColumn(d, by, c, fill) ==
    Shift([i \in 1..Len(d.rows) |-> d.rows[i][c]], fill)

\* d.groupby(by)[c].shift(1, fill_value=fill): each group's values are
\* shifted within the group and the result is aligned with the rows of d.
GroupbyShift(d, by, c, fill) ==
    [i \in 1..Len(d.rows) |->
        LET g == GroupPositions(d, by, d.rows[i][by])
            shifted == Shift([k \in 1..Len(g) |-> d.rows[g[k]][c]], fill)
            k == CHOOSE k \in 1..Len(g) : g[k] = i
        IN shifted[k]]

\* pandas factorizes a sort key: the code of v is its rank among the sorted
\* distinct values vals.
Rank(vals, v) == Cardinality({w \in vals : w < v})

\* Mutant of SortCode: both keys ascending.
SortCodeAscending(d, i) ==
    LET exps == {d.rows[j].expiration_date : j \in 1..Len(d.rows)}
        strikes == {d.rows[j].strike : j \in 1..Len(d.rows)}
    IN Rank(exps, d.rows[i].expiration_date) * Cardinality(strikes)
       + Rank(strikes, d.rows[i].strike)

\* The group index of row i under sort_values(by=["expiration_date",
\* "strike"], ascending=[False, True]): the codes of a descending key are
\* reversed, and the keys combine most significant first.
SortCode(d, i) ==
    LET exps == {d.rows[j].expiration_date : j \in 1..Len(d.rows)}
        strikes == {d.rows[j].strike : j \in 1..Len(d.rows)}
    IN (Cardinality(exps) - 1 - Rank(exps, d.rows[i].expiration_date)) * Cardinality(strikes)
       + Rank(strikes, d.rows[i].strike)

\* The stable sort of the group index: the rows of code k, in row order, for
\* k = from, from + 1, ..., upto.
RECURSIVE RowsByCode(_, _, _)
RowsByCode(d, from, upto) ==
    IF from > upto THEN <<>>
    ELSE LET HasCode(i) == SortCode(d, i) = from
             at == SelectSeq([i \in 1..Len(d.rows) |-> i], HasCode)
         IN [k \in 1..Len(at) |-> d.rows[at[k]]] \o RowsByCode(d, from + 1, upto)

sort_values(d) ==
    [columns |-> d.columns,
     rows |-> RowsByCode(d, 0, Len(d.rows) * Len(d.rows))]

----------------------------------------------------------------------------
(* The chain normalizer: the body of get_options_chain *)

Raised == [raised |-> TRUE]

\* Mutant of get_options_chain_body: pd.concat([puts_df, calls_df]).
get_options_chain_puts_first(r, e) ==
    IF r.raised THEN EmptyDataFrame
    ELSE LET calls_df == SetColumn(r.calls, "option_type", Broadcast(r.calls, "Call"))
             puts_df == SetColumn(r.puts, "option_type", Broadcast(r.puts, "Put"))
             d == Concat(puts_df, calls_df)
         IN SetColumn(d, "expiration_date", Broadcast(d, e))

get_options_chain_body(r, e) ==
    IF r.raised THEN EmptyDataFrame
    ELSE LET calls_df == SetColumn(r.calls, "option_type", Broadcast(r.calls, "Call"))
             puts_df == SetColumn(r.puts, "option_type", Broadcast(r.puts, "Put"))
             d == Concat(calls_df, puts_df)
         IN SetColumn(d, "expiration_date", Broadcast(d, e))

----------------------------------------------------------------------------
(* The derived-field calculator and the views.  Each plot function is the  *)
(* pair of the table object after the call and the rows handed to the     *)
(* bar plot.                                                               *)

\* Mutant of plot_change_in_open_interest: the filter keeps change_in_OI > 0.
plot_change_increases_only(d) ==
    LET d1 == IF "prev_openInterest" \notin d.columns
              THEN SetColumn(d, "prev_openInterest",
                             GroupbyShift(d, "strike", "openInterest", 0))
              ELSE d
        d2 == SetColumn(d1, "change_in_OI",
                        [i \in 1..Len(d1.rows) |->
                            d1.rows[i].openInterest - d1.rows[i].prev_openInterest])
        Increase(row) == row.change_in_OI > 0
    IN [df |-> d2, fig |-> [columns |-> d2.columns, rows |-> SelectSeq(d2.rows, Increase)]]

\* Mutant of plot_change_in_open_interest: after the change is computed,
\* prev_openInterest is set to openInterest for the next rendering.
plot_change_rolling(d) ==
    LET d1 == IF "prev_openInterest" \notin d.columns
              THEN SetColumn(d, "prev_openInterest",
                             GroupbyShift(d, "strike", "openInterest", 0))
              ELSE d
        d2 == SetColumn(d1, "change_in_OI",
                        [i \in 1..Len(d1.rows) |->
                            d1.rows[i].openInterest - d1.rows[i].prev_openInterest])
        d3 == SetColumn(d2, "prev_openInterest",
                        [i \in 1..Len(d2.rows) |-> d2.rows[i].openInterest])
        NonZero(row) == row.change_in_OI # 0
    IN [df |-> d3, fig |-> [columns |-> d3.columns, rows |-> SelectSeq(d2.rows, NonZero)]]

plot_change_in_open_interest(d) ==
    LET d1 == IF "prev_openInterest" \notin d.columns
              THEN SetColumn(d, "prev_openInterest",
                             GroupbyShift(d, "strike", "openInterest", 0))
              ELSE d
        d2 == SetColumn(d1, "change_in_OI",
                        [i \in 1..Len(d1.rows) |->
                            d1.rows[i].openInterest - d1.rows[i].prev_openInterest])
        NonZero(row) == row.change_in_OI # 0
    IN [df |-> d2, fig |-> [columns |-> d2.columns, rows |-> SelectSeq(d2.rows, NonZero)]]

plot_volume(d) ==
    LET Positive(row) == row.volume > 0
    IN [df |-> d, fig |-> [columns |-> d.columns, rows |-> SelectSeq(d.rows, Positive)]]

plot_open_interest_sorted(d) ==
    LET Positive(row) == row.openInterest > 0
    IN [df |-> d,
        fig |-> sort_values([columns |-> d.columns, rows |-> SelectSeq(d.rows, Positive)])]

----------------------------------------------------------------------------
(* The provider's answers to ticker.option_chain *)

\* The rows a provider frame is drawn from: every strike with every open
\* interest.  The volume is not drawn independently: the row with the largest
\* open interest is untraded and the others are traded, so that both filters
\* (volume > 0, openInterest > 0) keep and drop rows and differ on them.
VolumeOf(oi) == IF \A o \in OpenInterests : o <= oi THEN 0 ELSE 7

ProviderRow ==
    {[strike |-> k, openInterest |-> oi, volume |-> VolumeOf(oi)] :
        k \in Strikes, oi \in OpenInterests}

RECURSIVE SeqsOfLen(_, _)
SeqsOfLen(S, n) ==
    IF n = 0 THEN {<<>>}
    ELSE {Append(s, x) : s \in SeqsOfLen(S, n - 1), x \in S}

SeqsUpTo(S, n) == UNION {SeqsOfLen(S, k) : k \in 0..n}

\* An answer of ticker.option_chain: the rows rs, the first c of them calls.
ChainAnswer(rs, c) ==
    [raised |-> FALSE,
     calls |-> ProviderFrame(SubSeq(rs, 1, c)),
     puts |-> ProviderFrame(SubSeq(rs, c + 1, Len(rs)))]

----------------------------------------------------------------------------
(* st.cache_data and the cached functions.  A cached function is given the *)
(* run's world w (the stores and the histories) and the provider's answers *)
(* pv of this run, and returns whether it raised, its value and the world  *)
(* after the call.                                                         *)

Miss == [miss |-> TRUE]
Hit(v) == [value |-> v]
NoKey == <<>>
NoFilter == [none |-> TRUE]
NoReturns == [options |-> {}, chain |-> {}, valid |-> {}]

\* Mutant of cache_data_store: nothing is kept.
cache_data_forget(store, key, v) == store

\* st.cache_data keeps the result under the key of the arguments; it has no
\* ttl and no max_entries here, so nothing is ever dropped.
cache_data_store(store, key, v) == [store EXCEPT ![key] = Hit(v)]

\* Mutant of cache_data_return: the caller is handed the stored object itself
\* (what st.cache_resource does).
cache_resource_return(key, v) == [frame |-> v, shares |-> key]

\* st.cache_data hands every caller a copy of its own: the object shares
\* nothing with the store.
cache_data_return(key, v) == [frame |-> v, shares |-> NoKey]

Stored(w, fn, key, v) == [w EXCEPT !.cache[fn] = cache_data_store(@, key, v)]

\* History: the provider call (or the filter body) of fn ran for key.
Counted(w, fn, key) ==
    [w EXCEPT !.calls[fn][key] = IF @ < CallCap THEN @ + 1 ELSE @]

\* History: fn returned v for key; how is "hit" (from the store), "ok" (the
\* provider answered) or "error" (the provider raised).
Returned(w, fn, key, v, how) ==
    [w EXCEPT !.ret[fn] = @ \cup {<<key, v, how>>},
              !.first[fn][key] = IF @ = Miss THEN Hit(v) ELSE @]

\* Mutant of get_all_expiration_dates_body: no try/except.
get_all_expiration_dates_unguarded(ans) ==
    IF ans.raised THEN [raised |-> TRUE, value |-> <<>>]
    ELSE [raised |-> FALSE, value |-> ans.value]

get_all_expiration_dates_body(ans) ==
    IF ans.raised THEN [raised |-> FALSE, value |-> <<>>]
    ELSE [raised |-> FALSE, value |-> ans.value]

\* A miss of get_all_expiration_dates: r is what the body did.
ExpirationsComputed(w, t, how, r) ==
    IF r.raised
    THEN [raised |-> TRUE, value |-> <<>>, w |-> Counted(w, "options", t)]
    ELSE [raised |-> FALSE, value |-> r.value,
          w |-> Returned(Stored(Counted(w, "options", t), "options", t, r.value),
                         "options", t, r.value, how)]

get_all_expiration_dates(w, t, pv) ==
    IF w.cache.options[t] # Miss
    THEN [raised |-> FALSE, value |-> w.cache.options[t].value,
          w |-> Returned(w, "options", t, w.cache.options[t].value, "hit")]
    ELSE ExpirationsComputed(w, t, IF pv.options.raised THEN "error" ELSE "ok",
                             get_all_expiration_dates_body(pv.options))

\* Mutant of ChainComputed: the result of a provider call that raised is
\* returned but not kept.
ChainComputedRetrying(w, key, how, d) ==
    IF d = Raised
    THEN [raised |-> TRUE, value |-> EmptyDataFrame, w |-> Counted(w, "chain", key)]
    ELSE [raised |-> FALSE, value |-> d,
          w |-> Returned(IF how = "error" THEN Counted(w, "chain", key)
                         ELSE Stored(Counted(w, "chain", key), "chain", key, d),
                         "chain", key, d, how)]

\* A miss of get_options_chain: d is what the body returned (Raised when it
\* raised).
ChainComputed(w, key, how, d) ==
    IF d = Raised
    THEN [raised |-> TRUE, value |-> EmptyDataFrame, w |-> Counted(w, "chain", key)]
    ELSE [raised |-> FALSE, value |-> d,
          w |-> Returned(Stored(Counted(w, "chain", key), "chain", key, d),
                         "chain", key, d, how)]

\* Mutant of get_options_chain: no @st.cache_data, every call asks the
\* provider.
get_options_chain_undecorated(w, t, e, pv) ==
    ChainComputed(w, <<t, e>>, IF pv.chain[e].raised THEN "error" ELSE "ok",
                  get_options_chain_body(pv.chain[e], e))

get_options_chain(w, t, e, pv) ==
    IF w.cache.chain[<<t, e>>] # Miss
    THEN [raised |-> FALSE, value |-> w.cache.chain[<<t, e>>].value,
          w |-> Returned(w, "chain", <<t, e>>, w.cache.chain[<<t, e>>].value, "hit")]
    ELSE ChainComputed(w, <<t, e>>, IF pv.chain[e].raised THEN "error" ELSE "ok",
                       get_options_chain_body(pv.chain[e], e))

\* Mutant of IsValidChain: the sum is compared with >= 0.
IsValidChainOrZero(d) ==
    ~IsEmpty(d) /\ SumColumn(d, "openInterest", Len(d.rows)) >= 0

\* not df.empty and df["openInterest"].sum() > 0
IsValidChain(d) ==
    ~IsEmpty(d) /\ SumColumn(d, "openInterest", Len(d.rows)) > 0

\* The loop of get_valid_expirations from candidate i on: valid_expirations
\* is the list built so far, requested the expirations whose chain was asked
\* for so far.  ValidStep is the rest of the loop once get_options_chain has
\* returned c for candidate i.
RECURSIVE ValidLoop(_, _, _, _, _, _, _)
RECURSIVE ValidStep(_, _, _, _, _, _, _)
ValidLoop(w, t, all_expirations, i, valid_expirations, requested, pv) ==
    IF i > Len(all_expirations)
    THEN [raised |-> FALSE, value |-> valid_expirations, requested |-> requested, w |-> w]
    ELSE ValidStep(t, all_expirations, i, valid_expirations, requested, pv,
                   get_options_chain(w, t, all_expirations[i], pv))

ValidStep(t, all_expirations, i, valid_expirations, requested, pv, c) ==
    IF c.raised
    THEN [raised |-> TRUE, value |-> <<>>, requested |-> requested, w |-> c.w]
    ELSE ValidLoop(c.w, t, all_expirations, i + 1,
                   IF IsValidChain(c.value)
                   THEN Append(valid_expirations, all_expirations[i])
                   ELSE valid_expirations,
                   Append(requested, all_expirations[i]), pv)

\* The end of the body of get_valid_expirations: l is what the loop over
\* the candidates did.
Filtered(t, candidates, l) ==
    IF l.raised THEN [raised |-> TRUE, value |-> <<>>, w |-> l.w]
    ELSE [raised |-> FALSE, value |-> l.value,
          w |-> [l.w EXCEPT !.filt = [ticker |-> t, candidates |-> candidates,
                                      requested |-> l.requested, result |-> l.value]]]

Reverse(q) == [i \in 1..Len(q) |-> q[Len(q) + 1 - i]]

\* Mutant of FilterCandidates: the candidates are walked backwards.
FilterCandidatesBackwards(t, pv, a) ==
    IF a.raised THEN a
    ELSE Filtered(t, a.value, ValidLoop(a.w, t, Reverse(a.value), 1, <<>>, <<>>, pv))

\* Lines 37-44: a is what get_all_expiration_dates returned.
FilterCandidates(t, pv, a) ==
    IF a.raised THEN a
    ELSE Filtered(t, a.value, ValidLoop(a.w, t, a.value, 1, <<>>, <<>>, pv))

get_valid_expirations_body(w, t, pv) ==
    FilterCandidates(t, pv, get_all_expiration_dates(w, t, pv))

\* A miss of get_valid_expirations: r is what the body did.
ValidComputed(t, r) ==
    IF r.raised THEN r
    ELSE [raised |-> FALSE, value |-> r.value,
          w |-> Returned(Stored(r.w, "valid", t, r.value), "valid", t, r.value, "ok")]

get_valid_expirations(w, t, pv) ==
    IF w.cache.valid[t] # Miss
    THEN [raised |-> FALSE, value |-> w.cache.valid[t].value,
          w |-> Returned(w, "valid", t, w.cache.valid[t].value, "hit")]
    ELSE ValidComputed(t, get_valid_expirations_body(Counted(w, "valid", t), t, pv))

----------------------------------------------------------------------------
(* The Streamlit script: one run from top to bottom.  Each step is given   *)
(* what the steps before it left: the world w, the session state ss, the   *)
(* selectbox sel as rendered in this run.  plot0 is the plot selectbox as  *)
(* the last run left it, plotreq what the user picked in it (if anything), *)
(* clicked whether this run was started by the button.                     *)

NoWidget == [none |-> TRUE]
NoRequest == [none |-> TRUE]

PlotChoices ==
    <<"Change in Open Interest vs Strike Price",
      "Volume vs Strike Price",
      "Open Interest Sorted by Expiry">>

\* What the user can type, and str.upper on it.
Typed == {"", "aapl", "msft"}

upper(s) ==
    CASE s = "aapl" -> "AAPL"
      [] s = "msft" -> "MSFT"
      [] OTHER -> s

\* st.session_state[k] = v
Put(ss, k, v) == [x \in (DOMAIN ss) \cup {k} |-> IF x = k THEN v ELSE ss[x]]

\* What a run displays: state is "start" (no run yet), "blank" (no ticker),
\* "warning", "select" (selectbox and button only), "success", "error" or
\* "exception" (the run ended with an uncaught exception).
Display(state) ==
    [state |-> state, exception |-> "", filename |-> <<>>, csv |-> NoFrame, fig |-> NoFigure]

Outcome(w, ss, sel, plot, display) ==
    [w |-> w, ss |-> ss, sel |-> sel, plot |-> plot, shown |-> display]

\* Lines 131-136: the plot function of the choice, called on the table.
PlotOf(plot_choice, d) ==
    CASE plot_choice = PlotChoices[1] -> plot_change_in_open_interest(d)
      [] plot_choice = PlotChoices[2] -> plot_volume(d)
      [] plot_choice = PlotChoices[3] -> plot_open_interest_sorted(d)

\* Lines 122-136 once the plot function has returned p: the CSV was made
\* from the table before the call; the call has updated the table object,
\* and with it every object it shares its memory with.
Plotted(w, ss, ticker_symbol, sel, plot_choice, options_data, p) ==
    Outcome(IF options_data.shares = NoKey THEN w
            ELSE [w EXCEPT !.cache.chain[options_data.shares] = Hit(p.df)],
            Put(ss, "options_data", [options_data EXCEPT !.frame = p.df]),
            sel,
            [value |-> plot_choice],
            [Display("success") EXCEPT !.filename = <<ticker_symbol, "_options.csv">>,
                                       !.csv = options_data.frame,
                                       !.fig = p.fig])

\* Lines 125-136: the plot selectbox keeps its value while it is rendered
\* run after run, and starts at its first option otherwise.
ShowPlot(w, ss, ticker_symbol, sel, plot_choice, options_data) ==
    Plotted(w, ss, ticker_symbol, sel, plot_choice, options_data,
            PlotOf(plot_choice, options_data.frame))

\* Lines 119-138: the fetched table is read and shown.
ShowFetched(w, ss, ticker_symbol, sel, plot0, plotreq, options_data) ==
    IF options_data = NoFrame
    THEN Outcome(w, ss, sel, NoWidget,
                 [Display("exception") EXCEPT !.exception = "AttributeError"])
    ELSE IF IsEmpty(options_data.frame)
    THEN Outcome(w, ss, sel, NoWidget, Display("error"))
    ELSE ShowPlot(w, ss, ticker_symbol, sel,
                  IF plot0 = NoWidget THEN PlotChoices[1]
                  ELSE IF plotreq # NoRequest THEN plotreq.value
                  ELSE plot0.value,
                  options_data)

\* Line 118.
AfterButton(w, ss, ticker_symbol, sel, plot0, plotreq) ==
    IF "data_fetched" \in DOMAIN ss /\ ss["data_fetched"]
    THEN ShowFetched(w, ss, ticker_symbol, sel, plot0, plotreq, ss["options_data"])
    ELSE Outcome(w, ss, sel, NoWidget, Display("select"))

\* Lines 114-116 once get_options_chain has returned c.
Fetched(ss, ticker_symbol, sel, plot0, plotreq, c) ==
    IF c.raised
    THEN Outcome(c.w, ss, sel, NoWidget,
                 [Display("exception") EXCEPT !.exception = "provider error"])
    ELSE AfterButton(c.w,
                     Put(Put(Put(ss, "options_data",
                                 cache_data_return(<<ticker_symbol, sel.value>>, c.value)),
                             "data_fetched", TRUE),
                         "selected_expiry", sel.value),
                     ticker_symbol, sel, plot0, plotreq)

\* Lines 113-138.
Button(w, ss, ticker_symbol, sel, plot0, clicked, plotreq, pv) ==
    IF clicked
    THEN Fetched(ss, ticker_symbol, sel, plot0, plotreq,
                 get_options_chain(w, ticker_symbol, sel.value, pv))
    ELSE AfterButton(w, ss, ticker_symbol, sel, plot0, plotreq)

\* Mutant of ResetIfStale: line 109 tests only whether options_data is in
\* the session state.
ResetIfAbsent(ss, selected_expiry) ==
    IF "options_data" \notin DOMAIN ss
    THEN Put(Put(ss, "options_data", NoFrame), "data_fetched", FALSE)
    ELSE ss

\* Mutant of ResetIfStale: line 111 is missing.
ResetTableOnly(ss, selected_expiry) ==
    IF \/ "options_data" \notin DOMAIN ss
       \/ "selected_expiry" \notin DOMAIN ss
       \/ ss["selected_expiry"] # selected_expiry
    THEN Put(ss, "options_data", NoFrame)
    ELSE ss

\* Lines 109-111.
ResetIfStale(ss, selected_expiry) ==
    IF \/ "options_data" \notin DOMAIN ss
       \/ "selected_expiry" \notin DOMAIN ss
       \/ ss["selected_expiry"] # selected_expiry
    THEN Put(Put(ss, "options_data", NoFrame), "data_fetched", FALSE)
    ELSE ss

\* Line 107: the selectbox is the widget of the last run when its options
\* are the same, and then keeps its value unless the user picked another;
\* a selectbox of other options is a new widget at its first option.
Selectbox(valid_dates, sel0, selreq) ==
    [options |-> valid_dates,
     value |-> IF sel0 # NoWidget /\ sel0.options = valid_dates
               THEN (IF selreq # NoRequest THEN selreq.value ELSE sel0.value)
               ELSE valid_dates[1]]

\* Lines 107-138 with the selectbox rendered as sel.
ShowExpirations(w, ss, ticker_symbol, sel, plot0, clicked, plotreq, pv) ==
    Button(w, ResetIfStale(ss, sel.value), ticker_symbol, sel, plot0, clicked, plotreq, pv)

\* Mutant of AfterValid: line 140 calls st.error("No options data found.").
AfterValidErrorForWarning(ss, ticker_symbol, sel0, plot0, selreq, clicked, plotreq, pv, v) ==
    IF v.raised
    THEN Outcome(v.w, ss, NoWidget, NoWidget,
                 [Display("exception") EXCEPT !.exception = "provider error"])
    ELSE IF v.value = <<>>
    THEN Outcome(v.w, ss, NoWidget, NoWidget, Display("error"))
    ELSE ShowExpirations(v.w, ss, ticker_symbol, Selectbox(v.value, sel0, selreq),
                         plot0, clicked, plotreq, pv)

\* Lines 104-140 once get_valid_expirations has returned v.
AfterValid(ss, ticker_symbol, sel0, plot0, selreq, clicked, plotreq, pv, v) ==
    IF v.raised
    THEN Outcome(v.w, ss, NoWidget, NoWidget,
                 [Display("exception") EXCEPT !.exception = "provider error"])
    ELSE IF v.value = <<>>
    THEN Outcome(v.w, ss, NoWidget, NoWidget, Display("warning"))
    ELSE ShowExpirations(v.w, ss, ticker_symbol, Selectbox(v.value, sel0, selreq),
                         plot0, clicked, plotreq, pv)

\* Lines 101-140.
Script(w, ss, ticker_symbol, sel0, plot0, selreq, clicked, plotreq, pv) ==
    IF ticker_symbol = ""
    THEN Outcome(w, ss, NoWidget, NoWidget, Display("blank"))
    ELSE AfterValid(ss, ticker_symbol, sel0, plot0, selreq, clicked, plotreq, pv,
                    get_valid_expirations(w, ticker_symbol, pv))

----------------------------------------------------------------------------
(* The provider in a session *)

\* The answers of ticker.options: an error, or expirations without repeats.
OptionAnswers ==
    {Raised} \cup
    {[raised |-> FALSE, value |-> q] :
        q \in {x \in SeqsUpTo(Expirations, Cardinality(Expirations)) :
                 \A i, j \in 1..Len(x) : x[i] = x[j] => i = j}}

\* The answers of ticker.option_chain a session draws from: an error, rows
\* without open interest, and two chains with open interest (one with a
\* repeated strike, one with a single call).
SessionChainAnswers ==
    {Raised,
     ChainAnswer(<<[strike |-> 100, openInterest |-> 0, volume |-> 7],
                   [strike |-> 100, openInterest |-> 0, volume |-> 7]>>, 1),
     ChainAnswer(<<[strike |-> 100, openInterest |-> 30, volume |-> 7],
                   [strike |-> 100, openInterest |-> 50, volume |-> 0]>>, 1),
     ChainAnswer(<<[strike |-> 90, openInterest |-> 50, volume |-> 0]>>, 1)}

\* The expirations whose chain a run for ticker t can ask for, the provider
\* answering ticker.options with a: the candidates of the filter.
Askable(t, a) ==
    LET all == IF cache.options[t] # Miss THEN cache.options[t].value
               ELSE IF a.raised THEN <<>> ELSE a.value
    IN {all[i] : i \in 1..Len(all)}

\* The provider's answers in one run for ticker t.  An answer is drawn only
\* for a key the store does not hold and the run can ask for: no other
\* answer is ever looked at.
Oracles(t) ==
    IF t = "" THEN {[options |-> Raised, chain |-> [e \in Expirations |-> Raised]]}
    ELSE UNION {
        {[options |-> a, chain |-> f] :
            f \in {g \in [Expirations -> SessionChainAnswers] :
                     \A e \in Expirations :
                        (cache.chain[<<t, e>>] # Miss \/ e \notin Askable(t, a))
                            => g[e] = Raised}} :
        a \in IF cache.options[t] = Miss THEN OptionAnswers ELSE {Raised}}

----------------------------------------------------------------------------
(* Spec: a session *)

SessionStart ==
    /\ text_input = ""
    /\ expiry_selectbox = NoWidget
    /\ plot_selector = NoWidget
    /\ session_state = <<>>
    /\ cache = [options |-> [t \in Tickers |-> Miss],
                chain |-> [k \in Tickers \X Expirations |-> Miss],
                valid |-> [t \in Tickers |-> Miss]]
    /\ shown = Display("start")
    /\ provider_calls = [options |-> [t \in Tickers |-> 0],
                         chain |-> [k \in Tickers \X Expirations |-> 0],
                         valid |-> [t \in Tickers |-> 0]]
    /\ first_return = [options |-> [t \in Tickers |-> Miss],
                       chain |-> [k \in Tickers \X Expirations |-> Miss],
                       valid |-> [t \in Tickers |-> Miss]]
    /\ last_returns = NoReturns
    /\ last_filter = NoFilter
    /\ failed = {}

TableIdle ==
    /\ resp = Raised
    /\ expiration = CHOOSE e \in Expirations : TRUE
    /\ df = NoFrame
    /\ fig = NoFigure
    /\ op = "init"

Init == SessionStart /\ TableIdle

\* History: the provider calls among the returns ret of a run that raised
\* (lines 16-17 and 30-31 were taken).
Failures(ret) ==
    UNION {{<<fn, x[1]>> : x \in {y \in ret[fn] : y[3] = "error"}} :
              fn \in {"options", "chain"}}

\* The state a run of the script leaves, r being what the script did.
Commit(text, r) ==
    /\ text_input' = text
    /\ expiry_selectbox' = r.sel
    /\ plot_selector' = r.plot
    /\ session_state' = r.ss
    /\ cache' = r.w.cache
    /\ shown' = r.shown
    /\ provider_calls' = r.w.calls
    /\ first_return' = r.w.first
    /\ last_returns' = r.w.ret
    /\ last_filter' = r.w.filt
    /\ failed' = failed \cup Failures(r.w.ret)
    /\ UNCHANGED table_vars

\* One run of the script with the widgets as the user left them.
Run(text, selreq, clicked, plotreq) ==
    \E pv \in Oracles(upper(text)) :
        Commit(text,
               Script([cache |-> cache, calls |-> provider_calls, first |-> first_return,
                       ret |-> NoReturns, filt |-> NoFilter],
                      session_state, upper(text), expiry_selectbox, plot_selector,
                      selreq, clicked, plotreq, pv))

\* The user types a ticker.
TypeTicker ==
    \E s \in Typed : s # text_input /\ Run(s, NoRequest, FALSE, NoRequest)

\* The user picks another expiration in the selectbox.
SelectExpiry ==
    /\ expiry_selectbox # NoWidget
    /\ \E i \in 1..Len(expiry_selectbox.options) :
          /\ expiry_selectbox.options[i] # expiry_selectbox.value
          /\ Run(text_input, [value |-> expiry_selectbox.options[i]], FALSE, NoRequest)

\* The user presses "Fetch Options Data".
ClickFetch ==
    /\ expiry_selectbox # NoWidget
    /\ Run(text_input, NoRequest, TRUE, NoRequest)

\* The user picks another plot.
ChoosePlot ==
    /\ plot_selector # NoWidget
    /\ \E i \in 1..Len(PlotChoices) :
          /\ PlotChoices[i] # plot_selector.value
          /\ Run(text_input, NoRequest, FALSE, [value |-> PlotChoices[i]])

\* The user reruns the script.
Rerun == Run(text_input, NoRequest, FALSE, NoRequest)

Next == TypeTicker \/ SelectExpiry \/ ClickFetch \/ ChoosePlot \/ Rerun

Spec == Init /\ [][Next]_vars

----------------------------------------------------------------------------
(* SpecChain: one provider answer, normalized and then viewed *)

InitChain ==
    /\ \/ resp = Raised
       \/ \E rs \in SeqsUpTo(ProviderRow, MaxRows) : \E c \in 0..Len(rs) :
             resp = ChainAnswer(rs, c)
    /\ expiration \in Expirations
    /\ df = NoFrame
    /\ fig = NoFigure
    /\ op = "init"
    /\ SessionStart

FetchChain ==
    /\ op = "init"
    /\ df' = get_options_chain_body(resp, expiration)
    /\ op' = "fetch"
    /\ UNCHANGED <<resp, expiration, fig, session_vars>>

\* The script calls a plot function only on a fetched, non-empty table.
CanPlot == df # NoFrame /\ ~IsEmpty(df)

PlotChange ==
    /\ CanPlot
    /\ df' = plot_change_in_open_interest(df).df
    /\ fig' = plot_change_in_open_interest(df).fig
    /\ op' = "change"
    /\ UNCHANGED <<resp, expiration, session_vars>>

PlotVolume ==
    /\ CanPlot
    /\ df' = plot_volume(df).df
    /\ fig' = plot_volume(df).fig
    /\ op' = "volume"
    /\ UNCHANGED <<resp, expiration, session_vars>>

PlotSorted ==
    /\ CanPlot
    /\ df' = plot_open_interest_sorted(df).df
    /\ fig' = plot_open_interest_sorted(df).fig
    /\ op' = "sorted"
    /\ UNCHANGED <<resp, expiration, session_vars>>

NextChain == FetchChain \/ PlotChange \/ PlotVolume \/ PlotSorted

SpecChain == InitChain /\ [][NextChain]_vars

----------------------------------------------------------------------------
(* SpecSorted: plot_open_interest_sorted on a table whose rows carry       *)
(* several expirations, as the concatenation of several chains does        *)

MixedFrame(rs, es) ==
    SetColumn(SetColumn(ProviderFrame(rs), "option_type",
                        Broadcast(ProviderFrame(rs), "Call")),
              "expiration_date", es)

InitSorted ==
    /\ resp = Raised
    /\ expiration = CHOOSE e \in Expirations : TRUE
    /\ SessionStart
    /\ \E rs \in SeqsUpTo(ProviderRow, MaxRows) : \E es \in SeqsOfLen(Expirations, Len(rs)) :
          df = MixedFrame(rs, es)
    /\ fig = NoFigure
    /\ op = "init"

NextSorted == PlotSorted

SpecSorted == InitSorted /\ [][NextSorted]_vars

----------------------------------------------------------------------------
(* Claims *)

Range(q) == {q[i] : i \in 1..Len(q)}

\* C1: in a session every provider call, and the body of
\* get_valid_expirations, runs at most once per key, and every result a
\* cached function returns equals the first one it returned for that key.
C1_AtMostOncePerKey ==
    /\ \A t \in Tickers :
          provider_calls.options[t] <= 1 /\ provider_calls.valid[t] <= 1
    /\ \A k \in Tickers \X Expirations : provider_calls.chain[k] <= 1
    /\ \A fn \in {"options", "chain", "valid"} :
          \A r \in last_returns[fn] : first_return[fn][r[1]] = Hit(r[2])

\* A run that was served the valid expirations and a chain from the store,
\* each computed once before.
C1_Witness ==
    \E t \in Tickers, e \in Expirations :
        /\ \E r \in last_returns.chain : r[1] = <<t, e>> /\ r[3] = "hit"
        /\ \E r \in last_returns.valid : r[1] = t /\ r[3] = "hit"
        /\ provider_calls.chain[<<t, e>>] = 1
        /\ provider_calls.options[t] = 1
        /\ provider_calls.valid[t] = 1

\* C2: when the provider raises, get_all_expiration_dates returns an empty
\* sequence and get_options_chain an empty table, and no run of the script
\* ends with an exception.
C2_SoftFailure ==
    /\ shown.state # "exception"
    /\ \A r \in last_returns.options : r[3] = "error" => r[2] = <<>>
    /\ \A r \in last_returns.chain : r[3] = "error" => IsEmpty(r[2])

\* A run in which ticker.option_chain raised for one expiration and the
\* script went on to offer another.
C2_Witness ==
    /\ \E r \in last_returns.chain : r[3] = "error"
    /\ shown.state = "select"

\* C3: an expiration returned by get_all_expiration_dates is in
\* get_valid_expirations exactly when its chain is non-empty with a total
\* openInterest above 0.
C3_FilterCorrect ==
    \A t \in Tickers :
        cache.valid[t] # Miss =>
            /\ cache.options[t] # Miss
            /\ Range(cache.valid[t].value) \subseteq Range(cache.options[t].value)
            /\ \A e \in Range(cache.options[t].value) :
                  /\ cache.chain[<<t, e>>] # Miss
                  /\ e \in Range(cache.valid[t].value) <=>
                        LET d == cache.chain[<<t, e>>].value
                        IN /\ d.columns # {}
                           /\ Len(d.rows) > 0
                           /\ SumColumn(d, "openInterest", Len(d.rows)) > 0

\* Two expirations, the first with rows but no open interest: only the
\* second is valid.
C3_Witness ==
    \E t \in Tickers :
        /\ cache.valid[t] # Miss
        /\ Len(cache.options[t].value) = 2
        /\ cache.valid[t].value = <<cache.options[t].value[2]>>
        /\ ~IsEmpty(cache.chain[<<t, cache.options[t].value[1]>>].value)

\* C4: one execution of get_valid_expirations asks for the chain of every
\* candidate once, in the order get_all_expiration_dates returned them, and
\* returns a subsequence of the candidates.
C4_FilterOrder ==
    last_filter # NoFilter =>
        /\ last_filter.requested = last_filter.candidates
        /\ \E keep \in SUBSET (1..Len(last_filter.candidates)) :
              LET Kept(i) == i \in keep
              IN last_filter.result =
                    [k \in 1..Cardinality(keep) |->
                        last_filter.candidates[
                            SelectSeq([i \in 1..Len(last_filter.candidates) |-> i], Kept)[k]]]

\* Candidates that are not in date order, both kept.
C4_Witness ==
    /\ last_filter # NoFilter
    /\ Len(last_filter.candidates) = 2
    /\ last_filter.candidates[1] > last_filter.candidates[2]
    /\ last_filter.result = last_filter.candidates

\* C8: once a cache entry is computed it stays in the store with the same
\* value, whatever the user does.
C8_CacheImmutable ==
    [][/\ \A t \in Tickers :
            /\ cache.options[t] # Miss => cache'.options[t] = cache.options[t]
            /\ cache.valid[t] # Miss => cache'.valid[t] = cache.valid[t]
       /\ \A k \in Tickers \X Expirations :
            cache.chain[k] # Miss => cache'.chain[k] = cache.chain[k]]_vars

\* The change-in-OI plot has added its columns to the fetched table, and the
\* entry the table was fetched from has none of them.
C8_Witness ==
    /\ shown.state = "success"
    /\ "change_in_OI" \in session_state["options_data"].frame.columns
    /\ cache.chain[<<upper(text_input), session_state["selected_expiry"]>>] # Miss
    /\ "change_in_OI" \notin
          cache.chain[<<upper(text_input), session_state["selected_expiry"]>>].value.columns

Max(S) == CHOOSE x \in S : \A y \in S : y <= x

\* The rows of the provider frame f, cell by cell, are the rows from+1.. of d.
SameCells(f, d, from) ==
    \A i \in 1..Len(f.rows) :
        \A c \in f.columns : d.rows[from + i][c] = f.rows[i][c]

\* C5: the table get_options_chain returns for an answer of c call rows and
\* p put rows has c + p rows: the c call rows first, in provider order,
\* tagged Call, then the p put rows tagged Put, every row stamped with the
\* expiration asked for.
C5_RowConservation ==
    (df # NoFrame /\ ~resp.raised) =>
        LET c == Len(resp.calls.rows)
            p == Len(resp.puts.rows)
        IN /\ Len(df.rows) = c + p
           /\ SameCells(resp.calls, df, 0)
           /\ SameCells(resp.puts, df, c)
           /\ \A i \in 1..(c + p) :
                 /\ df.rows[i].option_type = (IF i <= c THEN "Call" ELSE "Put")
                 /\ df.rows[i].expiration_date = expiration

C5_Witness ==
    /\ op = "fetch"
    /\ ~resp.raised
    /\ Len(resp.calls.rows) = 2
    /\ Len(resp.puts.rows) = 1
    /\ resp.calls.rows[1] # resp.calls.rows[2]
    /\ Len(df.rows) = 3

\* C6: after the change-in-OI computation, prev_openInterest of a row is the
\* openInterest of the nearest earlier row of the same strike, whatever its
\* option type, or 0 when there is none, and change_in_OI is openInterest
\* minus prev_openInterest.
C6_DerivedFields ==
    (df # NoFrame /\ "change_in_OI" \in df.columns) =>
        \A i \in 1..Len(df.rows) :
            LET earlier == {j \in 1..(i - 1) : df.rows[j].strike = df.rows[i].strike}
            IN /\ df.rows[i].prev_openInterest =
                    (IF earlier = {} THEN 0 ELSE df.rows[Max(earlier)].openInterest)
               /\ df.rows[i].change_in_OI =
                    df.rows[i].openInterest - df.rows[i].prev_openInterest

\* Strike 100 with openInterest 30 (a call) then 50 (a put), another strike
\* between them: prev 0 and 30, change 30 and 20.
C6_Witness ==
    /\ op = "change"
    /\ Len(df.rows) = 3
    /\ df.rows[1].strike = 100 /\ df.rows[2].strike = 90 /\ df.rows[3].strike = 100
    /\ df.rows[1].option_type = "Call" /\ df.rows[3].option_type = "Put"
    /\ df.rows[1].openInterest = 30 /\ df.rows[3].openInterest = 50
    /\ df.rows[1].prev_openInterest = 0 /\ df.rows[1].change_in_OI = 30
    /\ df.rows[3].prev_openInterest = 30 /\ df.rows[3].change_in_OI = 20

\* C7 (as claimed): no view changes the table it is handed.
C7_ViewsArePure ==
    [][op' \in {"change", "volume", "sorted"} => df' = df]_vars

\* The row labels of a frame, in row order.
Labels(d) == [i \in 1..Len(d.rows) |-> d.rows[i].index]

\* Every row of view v is the row of d with its label, the labels of v are
\* distinct, and they are the labels of the rows of d that Keep holds of.
IsSelection(v, d, Keep(_)) ==
    /\ \A k \in 1..Len(v.rows) : \E i \in 1..Len(d.rows) : v.rows[k] = d.rows[i]
    /\ \A k, l \in 1..Len(v.rows) : v.rows[k].index = v.rows[l].index => k = l
    /\ {v.rows[k].index : k \in 1..Len(v.rows)} =
         {d.rows[i].index : i \in {j \in 1..Len(d.rows) : Keep(d.rows[j])}}

\* C9: the sorted open-interest view holds exactly the rows with
\* openInterest > 0, by expiration_date descending, then strike ascending,
\* rows equal on both in their original order.
C9_SortedView ==
    op = "sorted" =>
        LET Positive(row) == row.openInterest > 0
        IN /\ IsSelection(fig, df, Positive)
           /\ \A k \in 1..(Len(fig.rows) - 1) :
                 LET a == fig.rows[k]
                     b == fig.rows[k + 1]
                 IN \/ a.expiration_date > b.expiration_date
                    \/ /\ a.expiration_date = b.expiration_date
                       /\ a.strike < b.strike
                    \/ /\ a.expiration_date = b.expiration_date
                       /\ a.strike = b.strike
                       /\ a.index < b.index

\* A view of three rows: two expirations out of order in the table, and two
\* rows equal on both keys.
C9_Witness ==
    /\ op = "sorted"
    /\ Len(df.rows) = 3
    /\ Len(fig.rows) = 3
    /\ df.rows[1].expiration_date < df.rows[2].expiration_date
    /\ df.rows[1].expiration_date = df.rows[3].expiration_date
    /\ df.rows[1].strike = df.rows[3].strike
    /\ Labels(fig) = <<1, 0, 2>>

\* C10: the rows handed to the change-in-OI plot are exactly the rows of the
\* derived table whose change_in_OI is not 0, in their original order.
C10_ZeroChangeFiltered ==
    op = "change" =>
        LET NonZero(row) == row.change_in_OI # 0
        IN /\ IsSelection(fig, df, NonZero)
           /\ \A k \in 1..(Len(fig.rows) - 1) : fig.rows[k].index < fig.rows[k + 1].index

\* A zero change between two kept rows, one of them negative.
C10_Witness ==
    /\ op = "change"
    /\ Len(df.rows) = 3
    /\ df.rows[1].change_in_OI > 0
    /\ df.rows[2].change_in_OI = 0
    /\ df.rows[3].change_in_OI < 0
    /\ Labels(fig) = <<0, 2>>


----------------------------------------------------------------------------
(* Claims about the script *)

\* st.session_state.get("data_fetched", False)
DataFetched == "data_fetched" \in DOMAIN session_state /\ session_state["data_fetched"]

\* C11: with a ticker entered, the warning is shown exactly when
\* get_valid_expirations(ticker) is empty, and then neither the selectbox nor
\* anything behind it is rendered; the error "No options data found." is
\* shown exactly when the run got to the fetched table and found it empty;
\* no run ends with an exception.
C11_ErrorStatesDistinct ==
    /\ shown.state # "exception"
    /\ upper(text_input) # "" =>
          /\ shown.state = "warning" <=>
                /\ cache.valid[upper(text_input)] # Miss
                /\ cache.valid[upper(text_input)].value = <<>>
          /\ shown.state = "warning" =>
                expiry_selectbox = NoWidget /\ plot_selector = NoWidget
          /\ shown.state = "error" <=>
                /\ expiry_selectbox # NoWidget
                /\ DataFetched
                /\ session_state["options_data"] # NoFrame
                /\ IsEmpty(session_state["options_data"].frame)

\* The warning for a ticker without valid expirations, in a session that
\* still holds the table fetched for another ticker.
C11_Witness ==
    /\ shown.state = "warning"
    /\ cache.valid[upper(text_input)] = Hit(<<>>)
    /\ DataFetched
    /\ ~IsEmpty(session_state["options_data"].frame)

\* C12: a provider call that raised for a key is never made again: its
\* empty result stays in the store and is what every later call for the
\* key returns.
C12_NoRetry ==
    /\ \A k \in Tickers \X Expirations :
          <<"chain", k>> \in failed =>
              /\ provider_calls.chain[k] = 1
              /\ cache.chain[k] = Hit(EmptyDataFrame)
              /\ \A r \in last_returns.chain : r[1] = k => r[2] = EmptyDataFrame
    /\ \A t \in Tickers :
          <<"options", t>> \in failed =>
              /\ provider_calls.options[t] = 1
              /\ cache.options[t] = Hit(<<>>)
              /\ \A r \in last_returns.options : r[1] = t => r[2] = <<>>

\* A run after the one in which ticker.option_chain raised: the filter is
\* served from the store and the failed chain is not asked for again.
C12_Witness ==
    \E t \in Tickers, e \in Expirations :
        /\ <<"chain", <<t, e>>>> \in failed
        /\ upper(text_input) = t
        /\ \E r \in last_returns.valid : r[1] = t /\ r[3] = "hit"
        /\ last_returns.chain = {}


\* The columns plot_change_in_open_interest adds to a table.
DerivedColumns == {"prev_openInterest", "change_in_OI"}

\* The table d without the derived columns.
WithoutDerived(d) ==
    [columns |-> d.columns \ DerivedColumns,
     rows |-> [i \in 1..Len(d.rows) |->
                  [c \in (DOMAIN d.rows[i]) \ DerivedColumns |-> d.rows[i][c]]]]

\* C13: whenever a run displays the fetched table, that table is the chain
\* of the ticker entered and the expiration selected in that run, and the
\* CSV offered under the ticker's name is made from it.
C13_TableOfCurrentTicker ==
    shown.state = "success" =>
        /\ cache.chain[<<upper(text_input), expiry_selectbox.value>>] # Miss
        /\ WithoutDerived(shown.csv) =
              cache.chain[<<upper(text_input), expiry_selectbox.value>>].value
        /\ shown.filename = <<upper(text_input), "_options.csv">>


\* st.session_state.get("selected_expiry") differs from the expiration the
\* selectbox shows (None, when there was no fetch yet, differs from all).
StaleSelection ==
    /\ expiry_selectbox # NoWidget
    /\ \/ "selected_expiry" \notin DOMAIN session_state
       \/ session_state["selected_expiry"] # expiry_selectbox.value

\* C14: a run that ends with the selected expiration other than that of the
\* last fetch (or without any fetch so far) has left options_data None and
\* data_fetched false, and has shown no table, plot or download.
C14_StaleSelectionResets ==
    StaleSelection =>
        /\ session_state["options_data"] = NoFrame
        /\ session_state["data_fetched"] = FALSE
        /\ shown.state = "select"
        /\ shown.csv = NoFrame
        /\ shown.fig = NoFigure
        /\ plot_selector = NoWidget

\* The user picked another expiration after a fetch: the table is gone.
C14_Witness ==
    /\ StaleSelection
    /\ "selected_expiry" \in DOMAIN session_state
    /\ session_state["options_data"] = NoFrame
    /\ cache.chain[<<upper(text_input), session_state["selected_expiry"]>>] # Miss
    /\ IsValidChain(cache.chain[<<upper(text_input), session_state["selected_expiry"]>>].value)


\* C15: every table Fetch has stored in the session state is non-empty with
\* a total openInterest above 0, and no run shows "No options data found.".
C15_FetchedTableValid ==
    /\ shown.state # "error"
    /\ ("options_data" \in DOMAIN session_state /\ session_state["options_data"] # NoFrame)
          => IsValidChain(session_state["options_data"].frame)

\* A run started by the button: the valid expirations came from the store,
\* and so did the chain Fetch asked for.
C15_Witness ==
    /\ shown.state = "success"
    /\ \E r \in last_returns.valid : r[3] = "hit"
    /\ \E r \in last_returns.chain :
          /\ r[1] = <<upper(text_input), session_state["selected_expiry"]>>
          /\ r[3] = "hit"
          /\ IsValidChain(r[2])

\* C16: where the script reads the fetched table (line 118 on), data_fetched
\* true comes with options_data being a table: .empty is never read on None.
C16_FetchedIsTable ==
    /\ shown.exception # "AttributeError"
    /\ DataFetched => session_state["options_data"] # NoFrame

\* A run without a click that read the table an earlier run had fetched.
C16_Witness ==
    /\ DataFetched
    /\ shown.state = "success"
    /\ last_returns.chain = {}


\* C17: rendering the change-in-OI view on a fetched table that an earlier
\* run has rendered it on leaves prev_openInterest and change_in_OI of every
\* row as they were, which is what one rendering of the fetched chain gives.
C17_ChangeViewIdempotent ==
    (/\ shown.state = "success"
     /\ plot_selector.value = PlotChoices[1]
     /\ "change_in_OI" \in shown.csv.columns) =>
        /\ session_state["options_data"].frame = shown.csv
        /\ session_state["options_data"].frame =
              plot_change_in_open_interest(WithoutDerived(shown.csv)).df

\* The view rendered again on a table with a repeated strike, where some
\* prev_openInterest is above 0.
C17_Witness ==
    /\ shown.state = "success"
    /\ plot_selector.value = PlotChoices[1]
    /\ "change_in_OI" \in shown.csv.columns
    /\ \E i \in 1..Len(shown.csv.rows) : shown.csv.rows[i].prev_openInterest > 0

====
